---------------------------- MODULE Spec2Model ----------------------------
(***************************************************************************)
(* Model of the physics-app scene components.                              *)
(*                                                                         *)
(*   src/src/PhysicsScene.tsx  the precomputed-trace component: a memoised *)
(*       pass builds the slope world, steps it once per frame and records  *)
(*       a snapshot per frame plus the de-duplicated collision events; an  *)
(*       audio effect schedules one cue per event of the current frame and *)
(*       a draw effect looks the (clamped) snapshot up and paints it.      *)
(*   src/unnamed/part_000      the rebuild-and-step component: every run   *)
(*       of its effect rebuilds the peg world and steps it 0..frame.       *)
(*   src/src/Root.tsx          the composition the host plays.             *)
(*                                                                         *)
(* matter-js, seedrandom, React and the playback host are libraries used   *)
(* by the repository, not part of it.  The engine is modelled as a         *)
(* deterministic transition function on integer body states whose contact  *)
(* reports range over every shape of pair list the collision handler       *)
(* distinguishes; numbers are integers, with rates chosen so that          *)
(* 1000 / fps / 2 is exact.                                                *)
(***************************************************************************)
EXTENDS Integers, Sequences, FiniteSets, TLC

VARIABLES
    frame,              \* useCurrentFrame()
    width,              \* useVideoConfig().width
    height,             \* useVideoConfig().height
    fps,                \* useVideoConfig().fps
    durationInFrames,   \* useVideoConfig().durationInFrames
    engineSeed,         \* which deterministic engine behaviour is linked in
    frameSnapshots,     \* memoised: the trace
    allCollisions,      \* memoised: the event list
    delivered,          \* history: contact-begin notifications of the pass
    engineUpdates,      \* history: Engine.update calls of the pass
    audioContextRef,    \* audioContextRef.current
    audioFailed,        \* an audio call of the last commit threw
    errorThrown,        \* an error left the component: the tree is unmounted
    audioRan,           \* the audio effect ran in the last commit
    scheduled,          \* cues started by the audio effect of the last commit
    ctxCreated,         \* the last commit constructed an AudioContext
    drew,               \* the draw effect painted in the last commit
    drawn,              \* what the canvas of the trace component shows
    rebuildDrawn,       \* what the canvas of the rebuild component shows
    lastEvent           \* history: what the host did last

hostVars == <<frame, width, height, fps, durationInFrames>>
traceVars == <<frameSnapshots, allCollisions, delivered, engineUpdates>>
effectVars == <<audioContextRef, audioFailed, errorThrown, audioRan, scheduled, ctxCreated,
                drew, drawn>>
vars == <<hostVars, engineSeed, traceVars, effectVars, rebuildDrawn, lastEvent>>

---------------------------------------------------------------------------
\* Bounds of the model.

MaxDuration == 2
MaxFrame == 3
MaxSeed == 1
MaxFailAt == 2

\* Host values.  Root.tsx registers 1080 x 1920; the second value of each
\* lets a parameter change.
Widths == {1080, 720}
Heights == {1920, 1280}
FpsValues == {1, 2}
Durations == 1..MaxDuration
Frames == 0..MaxFrame
Seeds == 0..MaxSeed

\* Values a host that validates nothing could hand over.
AnyWidths == {0, 1080}
AnyHeights == {-1, 1920}
AnyFpsValues == {-1, 1}
AnyDurations == {0, 2}

---------------------------------------------------------------------------
\* JavaScript values.

Undefined == <<>>
Some(v) == <<v>>
Get(o) == o[1]

Min(a, b) == IF a < b THEN a ELSE b
Abs(a) == IF a < 0 THEN -a ELSE a

\* Math.sqrt, rounded down (arguments below 2^20).
Isqrt(n) == CHOOSE r \in 0..1024 : r * r <= n /\ n < (r + 1) * (r + 1)

RECURSIVE Digits(_)
Digits(n) == IF n < 10 THEN <<n>> ELSE Append(Digits(n \div 10), n % 10)

\* String(n) for an integer n: an optional sign and the decimal digits.
NumberToString(n) == IF n < 0 THEN <<"-">> \o Digits(-n) ELSE Digits(n)

---------------------------------------------------------------------------
\* Bodies.

StaticBody(x, y, w, h, fill, pIndex) ==
    [x |-> x, y |-> y, w |-> w, h |-> h, isStatic |-> TRUE,
     fillStyle |-> fill, isBall |-> FALSE, platformIndex |-> pIndex,
     vx |-> 0, vy |-> 0, restitution |-> 0]

DynamicBody(x, y, r, fill, ball, vx, vy, rest) ==
    [x |-> x, y |-> y, w |-> 2 * r, h |-> 2 * r, isStatic |-> FALSE,
     fillStyle |-> fill, isBall |-> ball, platformIndex |-> Undefined,
     vx |-> vx, vy |-> vy, restitution |-> rest]

\* body.vertices, kept as the two opposite corners of the body's box.
Vertices(b) ==
    << <<b.x - b.w \div 2, b.y - b.h \div 2>>,
       <<b.x + b.w \div 2, b.y + b.h \div 2>> >>

numSegments == 25
segmentWidth == 300
startY == 100

\* startY + x * tan(35 deg) + waveAmplitude * sin(2 pi x / wavelength); the
\* wave term is 0 at every segment end, a multiple of wavelength / 2.
SlopeY(x) == startY + (x * 7002) \div 10000

Slope(i) ==
    LET x1 == i * segmentWidth
        x2 == (i + 1) * segmentWidth
        y1 == SlopeY(x1)
        y2 == SlopeY(x2)
        segmentLength == Isqrt((x2 - x1) * (x2 - x1) + (y2 - y1) * (y2 - y1))
    IN  StaticBody((x1 + x2) \div 2, (y1 + y2) \div 2, segmentLength + 5, 30,
                   "#8B4513", Some(i))

createSlopes == [k \in 1..numSegments |-> Slope(k - 1)]

---------------------------------------------------------------------------
\* The engine (matter-js), a deterministic function of the world and delta.

\* The world of the trace component: floor, walls, slopes, then the ball.
SlopeWorld(w, seed) ==
    [statics  |-> << StaticBody(w \div 2, 10000, w, 50, "#333", Undefined),
                     StaticBody(-25, 2500, 50, 5000, "#333", Undefined),
                     StaticBody(w + 25, 2500, 50, 5000, "#333", Undefined) >>
                  \o createSlopes,
     dynamics |-> << DynamicBody(100, 50, 35, "#9333EA", TRUE, 5, 2, 7) >>,
     gravityY |-> 2,
     phase    |-> seed,
     updates  |-> 0]

\* Body.update: velocity gains gravity * delta^2, position gains velocity.
Integrate(b, gravityY, delta) ==
    LET vy1 == b.vy + (gravityY * delta * delta) \div 1000
    IN  [b EXCEPT !.vy = vy1, !.x = b.x + b.vx, !.y = b.y + vy1]

\* Resolver: the body leaves the contact with its normal velocity reversed
\* and scaled by its restitution, and is pushed along the surface.
Bounce(b) ==
    [b EXCEPT !.vy = -((b.vy * b.restitution) \div 10),
              !.vx = b.vx + Abs(b.vy) \div 4]

NextPhase(phase, delta) == (phase + 1000 \div delta + 1) % 6

\* The pairs whose contact begins in this update.  s1 is the static body
\* under the dynamic body d, s2 the one after it.
ContactPairs(statics, d, phase) ==
    LET n  == Len(statics)
        i1 == (((d.x \div segmentWidth) + 3) % n) + 1
        s1 == statics[i1]
        s2 == statics[(i1 % n) + 1]
        floor == statics[1]
        wall  == statics[3]
    IN  CASE phase = 1 -> << [bodyA |-> s1, bodyB |-> d] >>
          [] phase = 2 -> << [bodyA |-> d, bodyB |-> s1] >>
          [] phase = 3 -> << [bodyA |-> s1, bodyB |-> d],
                             [bodyA |-> floor, bodyB |-> d],
                             [bodyA |-> d, bodyB |-> s1] >>
          [] phase = 4 -> << [bodyA |-> s1, bodyB |-> d],
                             [bodyA |-> wall, bodyB |-> d],
                             [bodyA |-> d, bodyB |-> s2] >>
          [] phase = 5 -> << [bodyA |-> s1, bodyB |-> s2] >>
          [] OTHER     -> << >>

\* Some pair of the update involves a body that moves.
Touches(pairs) ==
    \E k \in 1..Len(pairs) : ~pairs[k].bodyA.isStatic \/ ~pairs[k].bodyB.isStatic

\* Matter.Engine.update(engine, delta): integrate, detect, report the begun
\* contacts (the listener sees the bodies before the resolver runs), resolve.
EngineUpdate(world, delta) ==
    LET n      == Len(world.dynamics)
        moved  == [i \in 1..n |-> Integrate(world.dynamics[i], world.gravityY, delta)]
        phase1 == NextPhase(world.phase, delta)
        hit    == (world.updates % n) + 1
        pairs  == ContactPairs(world.statics, moved[hit], phase1)
    IN  [world |-> [world EXCEPT
                      !.dynamics = [i \in 1..n |->
                          IF i = hit /\ Touches(pairs) THEN Bounce(moved[i])
                          ELSE moved[i]],
                      !.phase = phase1,
                      !.updates = world.updates + 1],
         pairs |-> pairs]

---------------------------------------------------------------------------
\* Trace generation: the useMemo callback of the trace component.

\* The ball and the platform of a pair, in either order; << >> otherwise.
SelectBallAndPlatform(pair) ==
    IF pair.bodyA.isBall /\ pair.bodyB.platformIndex # Undefined
    THEN <<pair.bodyA, pair.bodyB>>
    ELSE IF pair.bodyB.isBall /\ pair.bodyA.platformIndex # Undefined
         THEN <<pair.bodyB, pair.bodyA>>
         ELSE << >>

\* Mutant: the key leaves the platform out.
CollisionKeyFrameOnly(currentFrame, platformIndex) == NumberToString(currentFrame)

\* `${currentFrame}-${platformBody.platformIndex}`
CollisionKey(currentFrame, platformIndex) ==
    NumberToString(currentFrame) \o <<"-">> \o NumberToString(platformIndex)

\* Mutant: the velocity keeps its sign.
SignedVelocity(ballBody) == ballBody.vy

\* Math.abs(ballBody.velocity.y)
CollisionVelocity(ballBody) == Abs(ballBody.vy)

\* The body of event.pairs.forEach for one pair.
HandlePair(rec, pair, currentFrame) ==
    LET sel == SelectBallAndPlatform(pair)
    IN  IF sel = << >> THEN rec
        ELSE LET ballBody == sel[1]
                 platformBody == sel[2]
                 key == CollisionKey(currentFrame, Get(platformBody.platformIndex))
             IN  IF key \in rec.collisionMap THEN rec
                 ELSE [rec EXCEPT
                         !.collisionMap = @ \cup {key},
                         !.collisions = Append(@,
                             [frame |-> currentFrame,
                              platformIndex |-> Get(platformBody.platformIndex),
                              velocity |-> CollisionVelocity(ballBody)])]

\* The collisionStart listener over the pairs of one update.
RECURSIVE CollisionStart(_, _, _)
CollisionStart(rec, pairs, currentFrame) ==
    IF pairs = << >> THEN rec
    ELSE CollisionStart(HandlePair(rec, Head(pairs), currentFrame),
                        Tail(pairs), currentFrame)

\* One Matter.Engine.update of the pass, its notifications handed to the
\* listener while currentFrame is f.
ObservedUpdate(st, f, delta) ==
    LET r   == EngineUpdate(st.world, delta)
        rec == CollisionStart([collisions |-> st.collisions,
                               collisionMap |-> st.collisionMap],
                              r.pairs, f)
    IN  [st EXCEPT
           !.world = r.world,
           !.collisions = rec.collisions,
           !.collisionMap = rec.collisionMap,
           !.delivered = @ \o [k \in 1..Len(r.pairs) |->
                                  [frame |-> f, pair |-> r.pairs[k]]]]

\* The snapshot pushed at the end of an iteration: every body of the world,
\* the statics in insertion order and then the ball.
Snapshot(world) ==
    LET allBodies == world.statics \o world.dynamics
        ball == world.dynamics[1]
    IN  [bodies |-> [k \in 1..Len(allBodies) |->
                        [vertices  |-> Vertices(allBodies[k]),
                         fillStyle |-> allBodies[k].fillStyle,
                         isBall    |-> allBodies[k].isBall]],
         collisions |-> << >>,
         ballY |-> ball.y,
         virtualBallY |-> ball.x]

\* Mutant: the snapshot is pushed before the frame is stepped.
StepFrameSnapshotFirst(st, f, dt) ==
    LET s0 == [st EXCEPT !.snapshots = Append(@, Snapshot(st.world))]
        s1 == ObservedUpdate(s0, f, dt \div 2)
    IN  ObservedUpdate(s1, f, dt \div 2)

\* One iteration of the frame loop: two half updates, then the snapshot.
StepFrame(st, f, dt) ==
    LET s1 == ObservedUpdate(st, f, dt \div 2)
        s2 == ObservedUpdate(s1, f, dt \div 2)
    IN  [s2 EXCEPT !.snapshots = Append(@, Snapshot(s2.world))]

\* Mutant: the loop stops one frame early.
LoopStopsEarly(f, d) == f < d - 1

\* for (let f = 0; f < durationInFrames; f++)
LoopContinues(f, d) == f < d

RECURSIVE FrameLoop(_, _, _, _)
FrameLoop(st, f, dt, d) ==
    IF LoopContinues(f, d) THEN FrameLoop(StepFrame(st, f, dt), f + 1, dt, d)
    ELSE st

\* const dt = 1000 / fps
FrameDelta(r) == 1000 \div r

GenerateTrace(w, r, d, seed) ==
    LET st == FrameLoop([world |-> SlopeWorld(w, seed),
                         collisions |-> << >>,
                         collisionMap |-> {},
                         delivered |-> << >>,
                         snapshots |-> << >>],
                        0, FrameDelta(r), d)
    IN  [frameSnapshots |-> st.snapshots,
         allCollisions  |-> st.collisions,
         delivered      |-> st.delivered,
         engineUpdates  |-> st.world.updates]

---------------------------------------------------------------------------
\* The rebuild-and-step component (part_000).

\* The seeded stream of seedrandom('hello-tailwind'): its k-th draw, in
\* hundredths.
Rng(k) == (k * k * 31 + k * 17 + 5) % 100

colors == << "#F87171", "#60A5FA", "#34D399", "#FBBF24" >>

numPegRows == 9
numBalls == 250

RECURSIVE PegRows(_, _)
PegRows(w, r) ==
    IF r < numPegRows
    THEN [c \in 1..(r + 1) |->
             StaticBody(w \div 2 - (r * 60) \div 2 + (c - 1) * 60, 500 + r * 60,
                        16, 16, "#eee", Undefined)]
         \o PegRows(w, r + 1)
    ELSE << >>

\* Floor, walls, pegs, then the balls; ball i takes draws 2i+1 and 2i+2.
PegWorld(w, h, seed) ==
    [statics  |-> << StaticBody(w \div 2, h, w, 50, "#14151f", Undefined),
                     StaticBody(0, h \div 2, 50, h, "#14151f", Undefined),
                     StaticBody(w, h \div 2, 50, h, "#14151f", Undefined) >>
                  \o PegRows(w, 0),
     dynamics |-> [k \in 1..numBalls |->
                     DynamicBody(w \div 2 + ((Rng(2 * k - 1) - 50) * 40) \div 100,
                                 -((k - 1) * 30) - 100, 12,
                                 colors[(Rng(2 * k) * Len(colors)) \div 100 + 1],
                                 FALSE, 0, 0, 9)],
     gravityY |-> 1,
     phase    |-> seed,
     updates  |-> 0]

\* for (let i = 0; i < frame; i++) Matter.Engine.update(engine, 1000 / fps)
RECURSIVE Advance(_, _, _)
Advance(world, delta, n) ==
    IF n > 0 THEN Advance(EngineUpdate(world, delta).world, delta, n - 1)
    ELSE world

\* What the effect paints: every body not wholly above the canvas.
Painted(world) ==
    LET allBodies == world.statics \o world.dynamics
        visible == SelectSeq(allBodies, LAMBDA b : ~(b.y + b.h \div 2 < 0))
    IN  [k \in 1..Len(visible) |->
            [vertices |-> Vertices(visible[k]), fillStyle |-> visible[k].fillStyle]]

RebuildAndDraw(w, h, r, f, seed) ==
    Painted(Advance(PegWorld(w, h, seed), 1000 \div r, f))

\* }, [frame, width, height, fps])
RebuildDepsChanged(w, h, r, f) == <<f, w, h, r>> # <<frame, width, height, fps>>

---------------------------------------------------------------------------
\* The effects of the trace component.

\* typeof window !== "undefined": effects run in the browser only.
windowDefined == TRUE

\* Mutant: the filter keeps the events of earlier frames too.
CollisionsUpToFrame(collisions, f) == SelectSeq(collisions, LAMBDA c : c.frame <= f)

CollisionsAtFrame(collisions, f) == SelectSeq(collisions, LAMBDA c : c.frame = f)

\* _synthesizeBounceSound: the buffer is a function of the velocity alone.
SynthesizeCue(collision) ==
    [velocity |-> collision.velocity, frequency |-> 200 + collision.velocity * 50]

\* What the environment does to this commit's audio calls: the AudioContext
\* constructor throws, or the failAt-th cue of the commit throws (0: none).
AudioEnv == [ctorThrows : BOOLEAN, failAt : 0..MaxFailAt]

\* The audio effect; there is no try / catch around it.
AudioEffect(collisions, f, ref, env) ==
    LET collisionsAtFrame == CollisionsAtFrame(collisions, f)
        n == Len(collisionsAtFrame)
    IN  IF n > 0 /\ windowDefined
        THEN IF ref = "null" /\ env.ctorThrows
             THEN [ref |-> ref, scheduled |-> << >>, created |-> FALSE, threw |-> TRUE]
             ELSE LET m == IF env.failAt \in 1..n THEN env.failAt - 1 ELSE n
                  IN  [ref |-> "AudioContext",
                       scheduled |-> [k \in 1..m |-> SynthesizeCue(collisionsAtFrame[k])],
                       created |-> ref = "null",
                       threw |-> m < n]
        ELSE [ref |-> ref, scheduled |-> << >>, created |-> FALSE, threw |-> FALSE]

\* Mutant: the index is not clamped.
LookupUnclamped(snaps, f) ==
    IF f \in 0..(Len(snaps) - 1) THEN Some(snaps[f + 1]) ELSE Undefined

\* frameSnapshots[Math.min(frame, frameSnapshots.length - 1)]
LookupSnapshot(snaps, f) ==
    LET k == Min(f, Len(snaps) - 1)
    IN  IF k \in 0..(Len(snaps) - 1) THEN Some(snaps[k + 1]) ELSE Undefined

\* The draw effect: the snapshot and the camera it is painted under.
DrawEffect(snaps, f, w, h) ==
    LET snapshot == LookupSnapshot(snaps, f)
    IN  IF snapshot = Undefined THEN Undefined
        ELSE Some([snapshot |-> Get(snapshot),
                   cameraX |-> Get(snapshot).virtualBallY - w \div 2,
                   cameraY |-> Get(snapshot).ballY - (h * 4) \div 10])

\* Mutant: fps is missing from the dependency list.
MemoDepsWithoutFps(w, h, r, d) ==
    <<w, h, d>> # <<width, height, durationInFrames>>

\* }, [width, height, fps, durationInFrames])
MemoDepsChanged(w, h, r, d) ==
    <<w, h, r, d>> # <<width, height, fps, durationInFrames>>

\* }, [frame, allCollisions])
AudioDepsChanged(f, memoChanged) == f # frame \/ memoChanged

\* Mutant: frame is missing from the dependency list.
DrawDepsWithoutFrame(w, h, f, memoChanged) ==
    w # width \/ h # height \/ memoChanged

\* }, [frame, width, height, frameSnapshots])
DrawDepsChanged(w, h, f, memoChanged) ==
    f # frame \/ w # width \/ h # height \/ memoChanged

\* An exception of the audio effect's body leaves the effect: nothing in the
\* effect catches it.
Propagates(threw) == threw

\* One render of the trace component and the effects of its commit, in
\* declaration order; an effect that throws ends the commit.
CommitResult(memo, ref, canvas, runAudio, runDraw, w, h, f, env) ==
    LET a == IF runAudio
             THEN AudioEffect(memo.allCollisions, f, ref, env)
             ELSE [ref |-> ref, scheduled |-> << >>,
                   created |-> FALSE, threw |-> FALSE]
        p == IF runDraw /\ ~a.threw
             THEN DrawEffect(memo.frameSnapshots, f, w, h) ELSE Undefined
    IN  [memo |-> memo, audio |-> a, audioRan |-> runAudio,
         errorThrown |-> Propagates(a.threw),
         drew |-> p # Undefined,
         drawn |-> IF p # Undefined THEN p ELSE canvas]

\* The environments that differ for this commit.
EnvChoices(memo, f, runAudio) ==
    IF runAudio /\ CollisionsAtFrame(memo.allCollisions, f) # << >>
    THEN AudioEnv ELSE {[ctorThrows |-> FALSE, failAt |-> 0]}

---------------------------------------------------------------------------
\* The host: it mounts both components, then moves the frame and the
\* parameters at will; every change re-renders both components.  An error
\* thrown out of a component unmounts the tree.

Rerender(w, h, r, d, f) ==
    /\ ~errorThrown
    /\ frame' = f /\ width' = w /\ height' = h /\ fps' = r
    /\ durationInFrames' = d
    /\ UNCHANGED engineSeed
    /\ lastEvent' = IF <<w, h, r, d>> # <<width, height, fps, durationInFrames>>
                    THEN "config"
                    ELSE IF f < frame THEN "seekBack"
                    ELSE IF f > frame THEN "seek" ELSE "repeat"
    /\ rebuildDrawn' = IF RebuildDepsChanged(w, h, r, f)
                       THEN RebuildAndDraw(w, h, r, f, engineSeed)
                       ELSE rebuildDrawn
    /\ \E memoChanged \in {MemoDepsChanged(w, h, r, d)} :
       \E memo \in {IF memoChanged THEN GenerateTrace(w, r, d, engineSeed)
                    ELSE [frameSnapshots |-> frameSnapshots,
                          allCollisions |-> allCollisions,
                          delivered |-> delivered,
                          engineUpdates |-> engineUpdates]} :
       \E runAudio \in {AudioDepsChanged(f, memoChanged)} :
       \E env \in EnvChoices(memo, f, runAudio) :
       \E c \in {CommitResult(memo, audioContextRef, drawn, runAudio,
                              DrawDepsChanged(w, h, f, memoChanged),
                              w, h, f, env)} :
                 /\ frameSnapshots' = c.memo.frameSnapshots
                 /\ allCollisions' = c.memo.allCollisions
                 /\ delivered' = c.memo.delivered
                 /\ engineUpdates' = c.memo.engineUpdates
                 /\ audioContextRef' = c.audio.ref
                 /\ audioFailed' = c.audio.threw
                 /\ errorThrown' = c.errorThrown
                 /\ audioRan' = c.audioRan
                 /\ scheduled' = c.audio.scheduled
                 /\ ctxCreated' = c.audio.created
                 /\ drew' = c.drew
                 /\ drawn' = c.drawn

Mount(W, H, R, D) ==
    /\ frame = 0
    /\ width \in W /\ height \in H /\ fps \in R /\ durationInFrames \in D
    /\ engineSeed \in Seeds
    /\ lastEvent = "mount"
    /\ rebuildDrawn = RebuildAndDraw(width, height, fps, frame, engineSeed)
    /\ \E memo \in {GenerateTrace(width, fps, durationInFrames, engineSeed)} :
       \E env \in EnvChoices(memo, frame, TRUE) :
       \E c \in {CommitResult(memo, "null", Undefined, TRUE, TRUE,
                              width, height, frame, env)} :
                 /\ frameSnapshots = c.memo.frameSnapshots
                 /\ allCollisions = c.memo.allCollisions
                 /\ delivered = c.memo.delivered
                 /\ engineUpdates = c.memo.engineUpdates
                 /\ audioContextRef = c.audio.ref
                 /\ audioFailed = c.audio.threw
                 /\ errorThrown = c.errorThrown
                 /\ audioRan = c.audioRan
                 /\ scheduled = c.audio.scheduled
                 /\ ctxCreated = c.audio.created
                 /\ drew = c.drew
                 /\ drawn = c.drawn

HostSeek(F) == \E f \in F : Rerender(width, height, fps, durationInFrames, f)
HostSetWidth(W) == \E w \in W : Rerender(w, height, fps, durationInFrames, frame)
HostSetHeight(H) == \E h \in H : Rerender(width, h, fps, durationInFrames, frame)
HostSetFps(R) == \E r \in R : Rerender(width, height, r, durationInFrames, frame)
HostSetDuration(D) == \E d \in D : Rerender(width, height, fps, d, frame)

Init == Mount(Widths, Heights, FpsValues, Durations)

Next ==
    \/ HostSeek(Frames)
    \/ HostSetWidth(Widths)
    \/ HostSetHeight(Heights)
    \/ HostSetFps(FpsValues)
    \/ HostSetDuration(Durations)

Spec == Init /\ [][Next]_vars

\* The same components under a host that validates nothing.
InitAny == Mount(AnyWidths, AnyHeights, AnyFpsValues, AnyDurations)

NextAny ==
    \/ HostSeek(Frames)
    \/ HostSetWidth(AnyWidths)
    \/ HostSetHeight(AnyHeights)
    \/ HostSetFps(AnyFpsValues)
    \/ HostSetDuration(AnyDurations)

SpecAnyConfig == InitAny /\ [][NextAny]_vars

---------------------------------------------------------------------------
\* Properties.

Config == <<width, height, fps, durationInFrames>>

\* The pair of a notification is the ball and platform segment p.
IsBallPlatform(pair, p) ==
    \/ pair.bodyA.isBall /\ pair.bodyB.platformIndex = Some(p)
    \/ pair.bodyB.isBall /\ pair.bodyA.platformIndex = Some(p)

\* The notifications of frame f for the ball and platform p.
Notifications(f, p) ==
    {k \in 1..Len(delivered) :
        delivered[k].frame = f /\ IsBallPlatform(delivered[k].pair, p)}

\* The events recorded for frame f and platform p.
Events(f, p) ==
    {k \in 1..Len(allCollisions) :
        allCollisions[k].frame = f /\ allCollisions[k].platformIndex = p}

\* The ball of a ball-platform pair.
BallOf(pair) == IF pair.bodyA.isBall THEN pair.bodyA ELSE pair.bodyB

\* C1: seek independence.  Whatever the host requested before, the canvas
\* of the trace component shows the snapshot that a trace generated afresh
\* from the current parameters holds for the (clamped) current frame, and
\* the canvas of the rebuild component shows the world rebuilt from the
\* current parameters and stepped 0..frame: both are functions of the
\* requested index and the parameters alone.
C1_SeekIndependence ==
    /\ ~errorThrown =>
          /\ drawn # Undefined
          /\ Some(Get(drawn).snapshot) =
                LookupSnapshot(
                    GenerateTrace(width, fps, durationInFrames, engineSeed).frameSnapshots,
                    frame)
    /\ ~errorThrown =>
          rebuildDrawn = RebuildAndDraw(width, height, fps, frame, engineSeed)

\* A frame below the last requested one has just been drawn by both
\* components.
C1_Witness ==
    /\ lastEvent = "seekBack" /\ drew /\ ~errorThrown
    /\ frame < durationInFrames - 1

\* C2 as stated: frameSnapshots[i] is the state after exactly i steps of the
\* initial configuration (a step read as one update of 1000 / fps ms, or as
\* the two half updates of one frame).
C2_TraceAfterExactlyISteps ==
    \A i \in 0..(Len(frameSnapshots) - 1) :
        \/ frameSnapshots[i + 1] =
              Snapshot(Advance(SlopeWorld(width, engineSeed), FrameDelta(fps), i))
        \/ frameSnapshots[i + 1] =
              Snapshot(Advance(SlopeWorld(width, engineSeed),
                               FrameDelta(fps) \div 2, 2 * i))

\* C2 amended: frameSnapshots[i] is the state after exactly i + 1 frame
\* steps, each of them two engine updates of (1000 / fps) / 2 ms, applied to
\* the initial configuration; the rebuild component paints frame f after
\* exactly f updates of 1000 / fps ms.
C2_TraceAfterIPlusOneSteps ==
    /\ \A i \in 0..(Len(frameSnapshots) - 1) :
          frameSnapshots[i + 1] =
             Snapshot(Advance(SlopeWorld(width, engineSeed),
                              FrameDelta(fps) \div 2, 2 * (i + 1)))
    /\ engineUpdates = 2 * Len(frameSnapshots)
    /\ ~errorThrown =>
          rebuildDrawn =
             Painted(Advance(PegWorld(width, height, engineSeed), 1000 \div fps, frame))

\* A trace of several frames whose second snapshot is on the canvas.
C2_Witness ==
    /\ Len(frameSnapshots) >= 2 /\ frame = 1 /\ drew
    /\ Get(drawn).snapshot = frameSnapshots[2]
    /\ frameSnapshots[2] # frameSnapshots[1]

\* C3: the trace the effects read always holds exactly durationInFrames
\* snapshots, and it (with the event list) changes only in a render whose
\* parameters differ from the previous render's.
C3_TraceCompleteAndImmutable ==
    /\ [](Len(frameSnapshots) = durationInFrames)
    /\ [][Config' = Config =>
            /\ frameSnapshots' = frameSnapshots
            /\ allCollisions' = allCollisions]_vars

\* The draw effect has read a trace of several snapshots in a render that
\* did not regenerate it.
C3_Witness ==
    /\ lastEvent \in {"seek", "seekBack"} /\ drew
    /\ Len(frameSnapshots) >= 2

\* C4: clamping.  The canvas shows frameSnapshots[frame] for a frame inside
\* the trace and the last snapshot for every frame at or past its end, and a
\* request at or past the end never throws.
C4_Clamping ==
    /\ ~errorThrown =>
          /\ drawn # Undefined
          /\ frame < durationInFrames =>
                Get(drawn).snapshot = frameSnapshots[frame + 1]
          /\ frame >= durationInFrames =>
                Get(drawn).snapshot = frameSnapshots[durationInFrames]
    /\ frame >= durationInFrames => ~errorThrown /\ ~audioFailed
    /\ \A k \in 0..MaxFrame :
          LookupSnapshot(frameSnapshots, durationInFrames + k) =
             LookupSnapshot(frameSnapshots, durationInFrames - 1)

\* A request more than one frame past the end has just been drawn.
C4_Witness ==
    /\ frame > durationInFrames /\ drew
    /\ Len(frameSnapshots) >= 2

\* C5: event de-duplication.  For every frame f and platform p the event
\* list holds exactly one event when at least one ball-platform notification
\* for p was delivered while f was stepped, and none otherwise.
C5_EventDeduplication ==
    \A f \in 0..(durationInFrames - 1), p \in 0..(numSegments - 1) :
        Cardinality(Events(f, p)) = IF Notifications(f, p) # {} THEN 1 ELSE 0

\* Several notifications of one frame for one platform, one event.
C5_Witness ==
    \E f \in 0..(durationInFrames - 1), p \in 0..(numSegments - 1) :
        /\ Cardinality(Notifications(f, p)) >= 3
        /\ Cardinality(Events(f, p)) = 1
        /\ \E q \in 0..(numSegments - 1) : q # p /\ Cardinality(Events(f, q)) = 1

\* C6: cue selection.  An audio effect that ran to its end scheduled one
\* cue per event of the requested frame, in order, and nothing else; with no
\* event on the frame nothing is scheduled and no AudioContext is made.
C6_CueSelection ==
    LET at == {k \in 1..Len(allCollisions) : allCollisions[k].frame = frame}
    IN  /\ audioRan /\ ~audioFailed =>
              /\ Len(scheduled) = Cardinality(at)
              /\ \A j \in 1..Len(scheduled) :
                    \E k \in at :
                       /\ Cardinality({i \in at : i < k}) = j - 1
                       /\ scheduled[j].velocity = allCollisions[k].velocity
                       /\ scheduled[j].frequency = 200 + 50 * allCollisions[k].velocity
        /\ at = {} => scheduled = << >> /\ ~ctxCreated
        /\ ~audioRan => scheduled = << >> /\ ~ctxCreated

\* Several cues scheduled for one frame while events of other frames exist.
C6_Witness ==
    /\ audioRan /\ ~audioFailed /\ Len(scheduled) >= 2
    /\ \E k \in 1..Len(allCollisions) : allCollisions[k].frame # frame

\* C7 as stated: an audio failure is caught, so no error leaves the
\* component and the frame is drawn.
C7_AudioFailureTolerated == audioFailed => ~errorThrown /\ drew

\* C8 as stated: with a parameter that is zero or negative an error is
\* reported before any step is run, and no trace is produced or drawn.
C8_ConfigFailFast ==
    (width <= 0 \/ height <= 0 \/ fps <= 0 \/ durationInFrames <= 0) =>
        /\ errorThrown
        /\ engineUpdates = 0
        /\ frameSnapshots = << >>
        /\ ~drew

\* C9: no stale trace.  The trace and the event list the effects read are
\* those a generation from scratch yields for the current parameters.
C9_NoStaleTrace ==
    LET fresh == GenerateTrace(width, fps, durationInFrames, engineSeed)
    IN  /\ frameSnapshots = fresh.frameSnapshots
        /\ allCollisions = fresh.allCollisions

\* Both effects have just read a trace regenerated for changed parameters.
C9_Witness ==
    /\ lastEvent = "config" /\ drew /\ audioRan /\ scheduled # << >>

\* C10: event soundness.  Every event comes from a ball-platform
\* notification of its frame: the frame lies in 0..durationInFrames-1, the
\* platform index in 0..24, and the velocity is the absolute value of the
\* ball's vertical velocity at a notification of that frame and platform;
\* no event without such a notification.
C10_EventSoundness ==
    \A e \in 1..Len(allCollisions) :
        LET ev == allCollisions[e]
        IN  /\ ev.frame \in 0..(durationInFrames - 1)
            /\ ev.platformIndex \in 0..(numSegments - 1)
            /\ ev.velocity >= 0
            /\ \E k \in Notifications(ev.frame, ev.platformIndex) :
                  ev.velocity = Abs(BallOf(delivered[k].pair).vy)

\* An event recorded from a notification with the ball moving upwards,
\* the ball reported as bodyA, beside notifications of other pairs.
C10_Witness ==
    /\ \E e \in 1..Len(allCollisions) :
          \E k \in Notifications(allCollisions[e].frame, allCollisions[e].platformIndex) :
             /\ delivered[k].pair.bodyA.isBall
             /\ delivered[k].pair.bodyA.vy < 0
             /\ allCollisions[e].velocity = -delivered[k].pair.bodyA.vy
    /\ \E k \in 1..Len(delivered) :
          \A p \in 0..(numSegments - 1) : ~IsBallPlatform(delivered[k].pair, p)

=============================================================================
